---- MODULE Spec2Model ----
(***************************************************************************)
(* Model of the drag-to-rotation state machine of wasm-globe               *)
(* (src/src/lib.rs): the ControlData cell shared by the mousedown,         *)
(* mousemove and mouseup closures and by the animation-frame closure.      *)
(*                                                                         *)
(* Numbers.  Pixel offsets are integers.  Unit coordinates are carried as   *)
(* integers in units of 1/Half, a square root by its radicand, so the disc *)
(* test 1 - y*y - z*z >= 0 is exact; the positions the model draws from    *)
(* have dyadic unit coordinates, for which the f64 computation of that     *)
(* test is exact too.  An f64 angle is a record [nan, deg, eps]: NaN, or   *)
(* deg degrees plus eps units of 2^-48.  Additions and subtractions round  *)
(* to nearest, ties to even, as IEEE 754 binary64 does, and NaN            *)
(* propagates through them.                                                *)
(***************************************************************************)
EXTENDS Integers, Sequences, FiniteSets, TLC

VARIABLES pressed, position, position_prev, rotation,
          drawn, draws, raf,
          last, press_open, drag_start, rot_at_press, deferred,
          shapefile, quota, data_rs, build

ctl  == <<pressed, position, position_prev, rotation>>
hist == <<last, press_open, drag_start, rot_at_press, deferred>>
bld  == <<shapefile, quota, data_rs, build>>
vars == <<pressed, position, position_prev, rotation, drawn, draws, raf,
          last, press_open, drag_start, rot_at_press, deferred,
          shapefile, quota, data_rs, build>>

----------------------------------------------------------------------------
(* Program constants *)
CANVAS_WIDTH == 800
CANVAS_HEIGHT == 800

----------------------------------------------------------------------------
(* Bounds of the model *)
NPositions == 5
MaxButton == 1
MaxPressSteps == 1
MaxDrift == 4
NLivePositions == 3
MaxRecords == 3
MaxQuota == 16

----------------------------------------------------------------------------
(* f64 values.  [nan, deg, eps] is NaN when nan is TRUE and otherwise the  *)
(* number deg + eps * 2^-48: a whole number of degrees plus a whole number *)
(* of units of 2^-48 (the spacing of the f64 numbers between 16 and 32).   *)
(* Every longitude the model's positions produce is 0 or at least 16 in    *)
(* magnitude, so every sum and difference is such a number before it is    *)
(* rounded.                                                                *)
F(n) == [nan |-> FALSE, deg |-> n, eps |-> 0]
Fe(n, e) == [nan |-> FALSE, deg |-> n, eps |-> e]
NaN == [nan |-> TRUE, deg |-> 0, eps |-> 0]
Abs(n) == IF n < 0 THEN -n ELSE n

(* Spacing, in units of 2^-48, of the f64 numbers around n degrees.  The   *)
(* whole degrees that occur are multiples of 30, never a power of two, so  *)
(* the tiny part eps does not move a number across a binade boundary.      *)
Spacing(n) ==
  IF Abs(n) < 32 THEN 1
  ELSE IF Abs(n) < 64 THEN 2
  ELSE IF Abs(n) < 128 THEN 4
  ELSE IF Abs(n) < 256 THEN 8
  ELSE IF Abs(n) < 512 THEN 16
  ELSE 32

(* IEEE 754 round to nearest, ties to even, of deg + eps * 2^-48.          *)
RoundNearestEven(n, e) ==
  LET sp   == Spacing(n)
      down == e - (e % sp)
      rem  == e % sp
      up   == down + sp
  IN  IF 2 * rem < sp THEN Fe(n, down)
      ELSE IF 2 * rem > sp THEN Fe(n, up)
      ELSE IF down % (2 * sp) = 0 THEN Fe(n, down) ELSE Fe(n, up)

FAdd(a, b) == IF a.nan \/ b.nan THEN NaN ELSE RoundNearestEven(a.deg + b.deg, a.eps + b.eps)
FNeg(a) == IF a.nan THEN NaN ELSE Fe(-a.deg, -a.eps)
FSub(a, b) == FAdd(a, FNeg(b))
FScale(s, a) == IF s < 0 THEN FNeg(a) ELSE a

Position(px, py) == [x |-> px, y |-> py]
PositionDefault == Position(0, 0)

(* Pixel positions the pointer events deliver, drawn in this order:        *)
(* canvas corner (outside the disc), centre, 30 degrees on the equator,    *)
(* 60 degrees at v = .5, north pole, centre meridian at v = .5, -60        *)
(* degrees at v = .5, -30 degrees on the equator, east limb (on the        *)
(* boundary).                                                              *)
PosSeq ==
  << Position(0, 0), Position(400, 400), Position(600, 400),
     Position(700, 200), Position(400, 0), Position(400, 200),
     Position(100, 200), Position(200, 400), Position(800, 400) >>
Min(a, b) == IF a <= b THEN a ELSE b
Positions == {PosSeq[i] : i \in 1..Min(NPositions, Len(PosSeq))}
Buttons == 0..MaxButton

----------------------------------------------------------------------------
(* The context transform set at startup: (a, b, c, d, e, f).               *)
Half == Min(CANVAS_WIDTH, CANVAS_HEIGHT) \div 2
TransformA == Half
TransformD == -Half
TransformE == Half
TransformF == Half

(* Unit coordinates are carried as integers in units of 1/Half.            *)
(* canvas_to_unit_coords_Unflipped divides by the size of d, not by d.     *)
canvas_to_unit_coords_Unflipped(x, y) ==
  << ((x - TransformE) * Half) \div TransformA,
     ((y - TransformF) * Half) \div (-TransformD) >>
canvas_to_unit_coords(x, y) ==
  << ((x - TransformE) * Half) \div TransformA,
     -(((y - TransformF) * Half) \div (-TransformD)) >>

(* sqrt(1 - first^2 - second^2): NaN when the radicand is negative,        *)
(* otherwise the non-negative root, carried by its square (units 1/Half^2).*)
third_coord_val(first, second) ==
  LET rad == Half * Half - first * first - second * second
  IN  [nan |-> rad < 0, sq |-> IF rad < 0 THEN 0 ELSE rad]

(* f64::signum: 1.0 for +0.0 and positive numbers, -1.0 for negatives.     *)
signum(y) == IF y >= 0 THEN 1 ELSE -1

(* (x / (x * x + y * y).sqrt()).acos().to_degrees(), with x * x = n and    *)
(* x * x + y * y = d in units of 1/Half^2: 0/0 is NaN, x / sqrt(x * x) is  *)
(* 1 and acos(1) is 0, acos(0) gives 90, and for the two other ratios the  *)
(* model's positions produce the binary64 evaluation gives                 *)
(* 29.999999999999993 (cosine sqrt(3)/2) and 60.00000000000001 (cosine     *)
(* 1/2).                                                                   *)
AcosDegSq(n, d) ==
  CASE d = 0                   -> NaN
    [] d /= 0 /\ n = d         -> F(0)
    [] d /= 0 /\ n = 0         -> F(90)
    [] n = 120000 /\ d = 160000 -> Fe(30, -2)
    [] n = 30000 /\ d = 120000  -> Fe(60, 2)

(* The longitude component of cartesian_to_unit_spherical (the polar       *)
(* component z.acos() is discarded by the only caller).                    *)
cartesian_to_unit_spherical(x, y, z) ==
  FScale(signum(y), AcosDegSq(x.sq, x.sq + y * y))

OnSphere(p) ==
  LET yz == canvas_to_unit_coords(p.x, p.y)
  IN  ~third_coord_val(yz[1], yz[2]).nan
Longitude(p) ==
  LET yz == canvas_to_unit_coords(p.x, p.y)
  IN  cartesian_to_unit_spherical(third_coord_val(yz[1], yz[2]), yz[1], yz[2])

----------------------------------------------------------------------------
(* The handler that ran last, with the button and position of its event    *)
(* and, for a primary press, whether a movement was still waiting for the  *)
(* animation frame (position /= position_prev) when the press arrived.     *)
Event(h, b, p) ==
  [h |-> h, button |-> b, pos |-> p,
   pending |-> (h = "mousedown" /\ b = 0 /\ position /= position_prev)]

(* State after main() returns: ControlData::default(), one draw of the     *)
(* initial rotation (draws counts the calls of draw the last handler       *)
(* made), one animation-frame request outstanding.                         *)
MainInit ==
  /\ pressed = FALSE
  /\ position = PositionDefault
  /\ position_prev = PositionDefault
  /\ rotation = F(0)
  /\ drawn = F(0)
  /\ draws = 1
  /\ raf = 1
  /\ last = Event("start", 0, PositionDefault)
  /\ press_open = FALSE
  /\ drag_start = PositionDefault
  /\ rot_at_press = F(0)
  /\ deferred = <<>>

(* Bound on the input: a primary press is delivered only while the        *)
(* rotation is NaN or within MaxPressSteps steps of 30 degrees (the        *)
(* longitudes of the model's positions are multiples of 30 degrees) and    *)
(* MaxDrift units of 2^-48 of a whole number of degrees.                   *)
PressAdmitted ==
  \/ rotation.nan
  \/ Abs(rotation.deg) <= 30 * MaxPressSteps /\ Abs(rotation.eps) <= MaxDrift

(* mousedown listener on the canvas.  The history variables record the     *)
(* event (last), whether a primary press is open (press_open), where and   *)
(* with which rotation the current drag started (drag_start,               *)
(* rot_at_press), and drop any deferred update (deferred).                 *)
(* MouseDown_AnyButton is the listener without its test of the button,     *)
(* MouseDown_KeepsPrev one that leaves position_prev as it is.             *)
MouseDown_KeepsPrev(b, p) ==
  /\ b = 0 => PressAdmitted
  /\ IF b = 0
       THEN /\ pressed' = TRUE
            /\ position' = p
            /\ press_open' = TRUE
            /\ drag_start' = p
            /\ rot_at_press' = rotation
            /\ deferred' = <<>>
            /\ UNCHANGED position_prev
       ELSE UNCHANGED <<pressed, position, position_prev, press_open,
                        drag_start, rot_at_press, deferred>>
  /\ last' = Event("mousedown", b, p)
  /\ draws' = 0
  /\ UNCHANGED <<rotation, drawn, raf>>
MouseDown_AnyButton(b, p) ==
  /\ PressAdmitted
  /\ pressed' = TRUE
  /\ position' = p
  /\ position_prev' = p
  /\ press_open' = (b = 0 \/ press_open)
  /\ drag_start' = p
  /\ rot_at_press' = rotation
  /\ deferred' = <<>>
  /\ last' = Event("mousedown", b, p)
  /\ draws' = 0
  /\ UNCHANGED <<rotation, drawn, raf>>
MouseDown(b, p) ==
  /\ b = 0 => PressAdmitted
  /\ IF b = 0
       THEN /\ pressed' = TRUE
            /\ position' = p
            /\ position_prev' = p
            /\ press_open' = TRUE
            /\ drag_start' = p
            /\ rot_at_press' = rotation
            /\ deferred' = <<>>
       ELSE UNCHANGED <<pressed, position, position_prev, press_open,
                        drag_start, rot_at_press, deferred>>
  /\ last' = Event("mousedown", b, p)
  /\ draws' = 0
  /\ UNCHANGED <<rotation, drawn, raf>>

(* mousemove listener on the canvas.  MouseMove_Unpressed is the listener  *)
(* without its test of pressed, MouseMove_AdvancesPrev one that also       *)
(* writes position_prev.                                                   *)
MouseMove_Unpressed(p) ==
  /\ position' = p
  /\ last' = Event("mousemove", 0, p)
  /\ draws' = 0
  /\ UNCHANGED <<pressed, position_prev, rotation, drawn, raf,
                 press_open, drag_start, rot_at_press, deferred>>
MouseMove_AdvancesPrev(p) ==
  /\ IF pressed THEN position' = p /\ position_prev' = p
                ELSE UNCHANGED <<position, position_prev>>
  /\ last' = Event("mousemove", 0, p)
  /\ draws' = 0
  /\ UNCHANGED <<pressed, rotation, drawn, raf,
                 press_open, drag_start, rot_at_press, deferred>>
MouseMove(p) ==
  /\ IF pressed THEN position' = p ELSE UNCHANGED position
  /\ last' = Event("mousemove", 0, p)
  /\ draws' = 0
  /\ UNCHANGED <<pressed, position_prev, rotation, drawn, raf,
                 press_open, drag_start, rot_at_press, deferred>>

(* mouseup listener on the document.  MouseUp_PrimaryOnly is a listener    *)
(* that ends the drag only on the release of button 0,                     *)
(* MouseUp_ButtonChecked one that does nothing for another button.         *)
MouseUp_ButtonChecked(b, p) ==
  /\ IF b = 0
       THEN /\ IF pressed THEN position' = p ELSE UNCHANGED position
            /\ pressed' = FALSE
       ELSE UNCHANGED <<pressed, position>>
  /\ press_open' = FALSE
  /\ last' = Event("mouseup", b, p)
  /\ draws' = 0
  /\ UNCHANGED <<position_prev, rotation, drawn, raf,
                 drag_start, rot_at_press, deferred>>
MouseUp_PrimaryOnly(b, p) ==
  /\ IF pressed THEN position' = p ELSE UNCHANGED position
  /\ pressed' = (pressed /\ b /= 0)
  /\ press_open' = FALSE
  /\ last' = Event("mouseup", b, p)
  /\ draws' = 0
  /\ UNCHANGED <<position_prev, rotation, drawn, raf,
                 drag_start, rot_at_press, deferred>>
MouseUp(b, p) ==
  /\ IF pressed THEN position' = p ELSE UNCHANGED position
  /\ pressed' = FALSE
  /\ press_open' = FALSE
  /\ last' = Event("mouseup", b, p)
  /\ draws' = 0
  /\ UNCHANGED <<position_prev, rotation, drawn, raf,
                 drag_start, rot_at_press, deferred>>

(* The animation-frame closure, by its parts.                              *)
(* The test that the pointer moved since the last applied update           *)
(* (Moved_Always: the closure without that test; Moved_WhileDragging: a    *)
(* closure that looks at the movement only while the button is held).      *)
Moved_Always == TRUE
Moved_WhileDragging == pressed /\ position /= position_prev
Moved == position /= position_prev

(* Current position off the sphere: nothing is done this frame.  deferred  *)
(* remembers the position_prev that the skipped update left in place.      *)
(* TickSkip_ResetsPrev is a skip that advances position_prev all the same. *)
TickSkip_ResetsPrev ==
  /\ position_prev' = position
  /\ deferred' = <<position_prev>>
  /\ UNCHANGED <<rotation, drawn>>
  /\ draws' = 0
TickSkip ==
  /\ deferred' = <<position_prev>>
  /\ UNCHANGED <<position_prev, rotation, drawn>>
  /\ draws' = 0

(* Both positions on the sphere: advance position_prev, accumulate the     *)
(* longitude difference, redraw.  TickApply_CurrentOnly adds phi instead   *)
(* of the difference; TickApply_KeepsPrev does not advance position_prev;  *)
(* TickApply_NoDraw leaves the picture as it was; TickApply_DrawsFirst     *)
(* draws before it updates the rotation.                                   *)
TickApply_DrawsFirst(phi, phi_prev) ==
  /\ position_prev' = position
  /\ rotation' = FAdd(rotation, FSub(phi, phi_prev))
  /\ drawn' = rotation
  /\ draws' = 1
  /\ deferred' = <<>>
TickApply_NoDraw(phi, phi_prev) ==
  /\ position_prev' = position
  /\ rotation' = FAdd(rotation, FSub(phi, phi_prev))
  /\ UNCHANGED drawn
  /\ draws' = 0
  /\ deferred' = <<>>
TickApply_CurrentOnly(phi, phi_prev) ==
  /\ position_prev' = position
  /\ rotation' = FAdd(rotation, phi)
  /\ drawn' = rotation'
  /\ draws' = 1
  /\ deferred' = <<>>
TickApply_KeepsPrev(phi, phi_prev) ==
  /\ position_prev' = position_prev
  /\ rotation' = FAdd(rotation, FSub(phi, phi_prev))
  /\ drawn' = rotation'
  /\ draws' = 1
  /\ deferred' = <<>>
TickApply(phi, phi_prev) ==
  /\ position_prev' = position
  /\ rotation' = FAdd(rotation, FSub(phi, phi_prev))
  /\ drawn' = rotation'
  /\ draws' = 1
  /\ deferred' = <<>>

(* The animation-frame closure: it runs when the browser delivers the one   *)
(* outstanding request, and requests the next frame on every path.         *)
(* Tick_NoRequest is the closure without that request.                     *)
Tick_NoRequest ==
  /\ raf > 0
  /\ IF Moved
       THEN LET yz == canvas_to_unit_coords(position.x, position.y)
                x == third_coord_val(yz[1], yz[2])
            IN  IF ~x.nan
                  THEN LET yz_prev == canvas_to_unit_coords(position_prev.x, position_prev.y)
                           x_prev == third_coord_val(yz_prev[1], yz_prev[2])
                       IN  IF ~x_prev.nan
                             THEN \E phi \in {cartesian_to_unit_spherical(x, yz[1], yz[2])},
                                     phi_prev \in {cartesian_to_unit_spherical(x_prev, yz_prev[1], yz_prev[2])} :
                                    TickApply(phi, phi_prev)
                             ELSE draws' = 0 /\ UNCHANGED <<position_prev, rotation, drawn, deferred>>
                  ELSE TickSkip
       ELSE draws' = 0 /\ UNCHANGED <<position_prev, rotation, drawn, deferred>>
  /\ raf' = raf - 1
  /\ last' = Event("tick", 0, PositionDefault)
  /\ UNCHANGED <<pressed, position, press_open, drag_start, rot_at_press>>
(* Tick_PrevUnchecked is the closure without its test of x_prev.           *)
Tick_PrevUnchecked ==
  /\ raf > 0
  /\ IF Moved
       THEN LET yz == canvas_to_unit_coords(position.x, position.y)
                x == third_coord_val(yz[1], yz[2])
            IN  IF ~x.nan
                  THEN LET yz_prev == canvas_to_unit_coords(position_prev.x, position_prev.y)
                           x_prev == third_coord_val(yz_prev[1], yz_prev[2])
                       IN  \E phi \in {cartesian_to_unit_spherical(x, yz[1], yz[2])},
                              phi_prev \in {IF x_prev.nan THEN NaN
                                            ELSE cartesian_to_unit_spherical(x_prev, yz_prev[1], yz_prev[2])} :
                             TickApply(phi, phi_prev)
                  ELSE TickSkip
       ELSE draws' = 0 /\ UNCHANGED <<position_prev, rotation, drawn, deferred>>
  /\ raf' = (raf - 1) + 1
  /\ last' = Event("tick", 0, PositionDefault)
  /\ UNCHANGED <<pressed, position, press_open, drag_start, rot_at_press>>
Tick ==
  /\ raf > 0
  /\ IF Moved
       THEN LET yz == canvas_to_unit_coords(position.x, position.y)
                x == third_coord_val(yz[1], yz[2])
            IN  IF ~x.nan
                  THEN LET yz_prev == canvas_to_unit_coords(position_prev.x, position_prev.y)
                           x_prev == third_coord_val(yz_prev[1], yz_prev[2])
                       IN  IF ~x_prev.nan
                             THEN \E phi \in {cartesian_to_unit_spherical(x, yz[1], yz[2])},
                                     phi_prev \in {cartesian_to_unit_spherical(x_prev, yz_prev[1], yz_prev[2])} :
                                    TickApply(phi, phi_prev)
                             ELSE draws' = 0 /\ UNCHANGED <<position_prev, rotation, drawn, deferred>>
                  ELSE TickSkip
       ELSE draws' = 0 /\ UNCHANGED <<position_prev, rotation, drawn, deferred>>
  /\ raf' = (raf - 1) + 1
  /\ last' = Event("tick", 0, PositionDefault)
  /\ UNCHANGED <<pressed, position, press_open, drag_start, rot_at_press>>

----------------------------------------------------------------------------
(* The renderer.  The generated table data::COASTLINE_POINTS is not part   *)
(* of the sources; the model draws this sample of it: polylines of         *)
(* (longitude, latitude) pairs in whole degrees, the longitudes multiples  *)
(* of 30 so that longitude + rotation is a number of the model.  It holds  *)
(* the point (0, 0), a segment on the limb of the unrotated globe, a       *)
(* polyline that crosses the limb, and polylines that start at a pole.     *)
COASTLINE_POINTS ==
  << << <<0, 0>>, <<30, 0>> >>,
     << <<-90, 0>>, <<-90, 30>> >>,
     << <<60, 0>>, <<120, 0>>, <<150, -30>> >>,
     << <<0, 90>>, <<0, 60>> >>,
     << <<180, -90>>, <<150, -60>> >> >>

(* Sign of theta.to_radians().sin() for theta = 90 - latitude, between 0   *)
(* and 180 degrees: sin(0) is 0, and the binary64 value at 180 degrees is  *)
(* 1.2246467991473532e-16, positive.                                       *)
SinSign(theta) == IF theta.deg = 0 /\ theta.eps = 0 THEN 0 ELSE 1

(* Sign of phi.to_radians().cos() in binary64.  Away from the odd          *)
(* multiples of 90 degrees it is the sign of the cosine.  At 90 + eps and  *)
(* 270 + eps with eps /= 0 it is still the sign of the cosine.  At an odd  *)
(* multiple of 90 itself the binary64 value is not 0: it is                *)
(* 6.123233995736766e-17 at 90 and -90, -1.8369701987210297e-16 at 270     *)
(* and -270, positive at 450, negative at 630, positive at 810 and at 990. *)
CosSign(phi) ==
  LET m == phi.deg % 360
  IN  IF m % 180 /= 90
        THEN IF m < 90 \/ m > 270 THEN 1 ELSE -1
      ELSE IF phi.eps /= 0
        THEN IF (m = 90) = (phi.eps < 0) THEN 1 ELSE -1
      ELSE IF Abs(phi.deg) = 990 THEN 1
      ELSE IF Abs(phi.deg) % 360 = 90 THEN 1 ELSE -1

(* The x component of unit_spherical_to_cartesian (the only one draw       *)
(* tests; y and z go to the canvas): sin(theta) * cos(phi) by its sign.    *)
(* A NaN angle gives NaN, and 0 * cos(phi) is a zero of either sign.       *)
unit_spherical_to_cartesian(theta, phi) ==
  [nan |-> theta.nan \/ phi.nan,
   sgn |-> IF theta.nan \/ phi.nan THEN 0 ELSE SinSign(theta) * CosSign(phi)]

(* x < 0.0: false for NaN and for both zeros.                              *)
Negative(x) == ~x.nan /\ x.sgn < 0

(* The projection of a point of the table at a rotation.                   *)
Project(point, rot) ==
  unit_spherical_to_cartesian(FSub(F(90), F(point[2])), FAdd(F(point[1]), rot))

(* draw: the strokes made for a rotation, polyline by polyline, each with  *)
(* its end points and the style chosen.  draw_BothBehind takes the back    *)
(* style only when both end points are behind.                             *)
draw_BothBehind(rot) ==
  [i \in 1..Len(COASTLINE_POINTS) |->
    [j \in 1..(Len(COASTLINE_POINTS[i]) - 1) |->
      LET prev_point == COASTLINE_POINTS[i][j]
          point == COASTLINE_POINTS[i][j + 1]
          x_prev == Project(prev_point, rot)
          x == Project(point, rot)
      IN  [from |-> prev_point, to |-> point,
           style |-> IF Negative(x_prev) /\ Negative(x)
                       THEN "COAST_BACK" ELSE "COAST_FRONT"]]]
draw(rot) ==
  [i \in 1..Len(COASTLINE_POINTS) |->
    [j \in 1..(Len(COASTLINE_POINTS[i]) - 1) |->
      LET prev_point == COASTLINE_POINTS[i][j]
          point == COASTLINE_POINTS[i][j + 1]
          x_prev == Project(prev_point, rot)
          x == Project(point, rot)
      IN  [from |-> prev_point, to |-> point,
           style |-> IF Negative(x_prev) \/ Negative(x)
                       THEN "COAST_BACK" ELSE "COAST_FRONT"]]]

(* The forward transform the canvas applies to unit coordinates (given in  *)
(* units of 1/Half): (a * u + e, d * v + f).                               *)
context_transform(u, v) ==
  << (TransformA * u) \div Half + TransformE,
     (TransformD * v) \div Half + TransformF >>

----------------------------------------------------------------------------
(* The build script (build.rs).  A shapefile is the sequence of items its  *)
(* reader yields: a shape of some kind with its parts, or a read error.    *)
(* A part of a polyline is a run of points; a part of a polygon is an      *)
(* outer or an inner ring.  Every other kind of shape stands under         *)
(* "Point".  A write succeeds while fewer than quota lines are written;    *)
(* after a failed read or write nothing more is done (the ? operator).     *)
Shape(kind, parts) == [kind |-> kind, parts |-> parts]
Part(ring, points) == [ring |-> ring, points |-> points]
ShapeSamples ==
  { Shape("Polyline", << Part("Part", << <<0, 0>> >>), Part("Part", << <<30, 0>> >>) >>),
    Shape("Polygon", << Part("Outer", << <<60, 0>> >>), Part("Inner", << <<60, 30>> >>) >>),
    Shape("Point", <<>>),
    Shape("ReadError", <<>>) }
Shapefiles == UNION {[1..n -> ShapeSamples] : n \in 0..MaxRecords}

Line(text, x, y) == [text |-> text, x |-> x, y |-> y]
File(out, result) == [out |-> out, result |-> result]
write_all(file, line, q) ==
  IF file.result = "Err" THEN file
  ELSE IF Len(file.out) < q THEN File(Append(file.out, line), "Ok")
  ELSE File(file.out, "Err")

RECURSIVE WritePoints(_, _, _)
WritePoints(file, points, q) ==
  IF points = <<>> THEN file
  ELSE WritePoints(write_all(file, Line("(f64, f64),", points[1][1], points[1][2]), q),
                   Tail(points), q)

RECURSIVE WriteParts(_, _, _)
WriteParts(file, parts, q) ==
  IF parts = <<>> THEN file
  ELSE WriteParts(IF parts[1].ring = "Inner" THEN file
                  ELSE WritePoints(file, parts[1].points, q),
                  Tail(parts), q)

(* The text written for a shape of another kind.                           *)
Marker(shape) == Line("!!!ERROR(" \o shape.kind \o ")!!!", 0, 0)

(* One arm of the match on the shape.  WriteShape_Fatal returns an error   *)
(* for a shape that is neither a polyline nor a polygon.                   *)
WriteShape_Fatal(file, shape, q) ==
  IF shape.kind \in {"Polyline", "Polygon"}
    THEN write_all(WriteParts(write_all(file, Line("&[", 0, 0), q), shape.parts, q),
                   Line("],", 0, 0), q)
    ELSE File(file.out, "Err")
WriteShape(file, shape, q) ==
  IF shape.kind \in {"Polyline", "Polygon"}
    THEN write_all(WriteParts(write_all(file, Line("&[", 0, 0), q), shape.parts, q),
                   Line("],", 0, 0), q)
    ELSE write_all(file, Marker(shape), q)

RECURSIVE WriteRecords(_, _, _)
WriteRecords(file, records, q) ==
  IF records = <<>> \/ file.result = "Err" THEN file
  ELSE IF records[1].kind = "ReadError" THEN File(file.out, "Err")
  ELSE WriteRecords(WriteShape(file, records[1], q), Tail(records), q)

write_data(file, records, q) ==
  write_all(WriteRecords(write_all(file, Line("pub const COASTLINE_POINTS: &[&[(f64, f64)]] = &[", 0, 0), q),
                         records, q),
            Line("];", 0, 0), q)

(* main of build.rs: the comment line, then write_data.                    *)
BuildMain ==
  /\ build = "none"
  /\ LET file == write_data(write_all(File(<<>>, "Ok"),
                                      Line("// This file is code generated.", 0, 0), quota),
                            shapefile, quota)
     IN  /\ data_rs' = file.out
         /\ build' = file.result
  /\ UNCHANGED <<shapefile, quota>>
  /\ UNCHANGED <<pressed, position, position_prev, rotation, drawn, draws, raf,
                 last, press_open, drag_start, rot_at_press, deferred>>

----------------------------------------------------------------------------
(* The program: the build script is not part of it and its variables rest. *)
Init ==
  /\ MainInit
  /\ shapefile = <<>>
  /\ quota = 0
  /\ data_rs = <<>>
  /\ build = "none"

Next ==
  \/ \E b \in Buttons, p \in Positions : MouseDown(b, p) /\ UNCHANGED bld
  \/ \E p \in Positions : MouseMove(p) /\ UNCHANGED bld
  \/ \E b \in Buttons, p \in Positions : MouseUp(b, p) /\ UNCHANGED bld
  \/ Tick /\ UNCHANGED bld

Spec == Init /\ [][Next]_vars

(* The program with the browser's scheduling: a requested animation frame  *)
(* is eventually delivered.  The pointer events are drawn from the first   *)
(* NLivePositions of these positions: canvas corner, centre, centre        *)
(* meridian at v = .5, 30 degrees on the equator, north pole.  They take   *)
(* the frame closure down each of its paths.                               *)
LivePosSeq ==
  << Position(0, 0), Position(400, 400), Position(400, 200),
     Position(600, 400), Position(400, 0) >>
LivePositions == {LivePosSeq[i] : i \in 1..Min(NLivePositions, Len(LivePosSeq))}
LiveNext ==
  \/ \E b \in Buttons, p \in LivePositions : MouseDown(b, p) /\ UNCHANGED bld
  \/ \E p \in LivePositions : MouseMove(p) /\ UNCHANGED bld
  \/ \E b \in Buttons, p \in LivePositions : MouseUp(b, p) /\ UNCHANGED bld
  \/ Tick /\ UNCHANGED bld

LiveSpec == Init /\ [][LiveNext]_vars /\ WF_vars(Tick /\ UNCHANGED bld)

(* The build script alone, on every shapefile of at most MaxRecords items  *)
(* and every quota up to MaxQuota; the program's variables rest.           *)
BuildInit ==
  /\ MainInit
  /\ shapefile \in Shapefiles
  /\ quota \in 0..MaxQuota
  /\ data_rs = <<>>
  /\ build = "none"

BuildNext == BuildMain

BuildSpec == BuildInit /\ [][BuildNext]_vars

TypeOK ==
  /\ pressed \in BOOLEAN
  /\ position \in Positions
  /\ position_prev \in Positions
  /\ rotation.nan \in BOOLEAN
  /\ raf = 1

----------------------------------------------------------------------------
(* Predicates on positions used by the properties, tabulated over the      *)
(* positions of the model.                                                 *)
IsPole(p) ==
  LET yz == canvas_to_unit_coords(p.x, p.y)
  IN  yz[1] = 0 /\ Abs(yz[2]) = Half
StrictlyInside(p) ==
  LET yz == canvas_to_unit_coords(p.x, p.y)
  IN  yz[1] * yz[1] + yz[2] * yz[2] < Half * Half
Lon == [p \in Positions |-> Longitude(p)]
OnSphereSet == {p \in Positions : OnSphere(p)}
InsideSet == {p \in Positions : StrictlyInside(p)}
PoleSet == {p \in Positions : IsPole(p)}

(* C1: in every reachable state the accumulated rotation is a real number, *)
(* never NaN.                                                              *)
C1_RotationNeverNaN == ~rotation.nan

(* C2: a tick with current /= previous and current outside the unit disc   *)
(* leaves rotation and previous unchanged; when a later tick applies an    *)
(* update while one is deferred, previous is still the one the skip left   *)
(* and the delta is longitude(current) - longitude(that previous).         *)
C2_OffDiscDeferred ==
  [][ /\ (last'.h = "tick" /\ position /= position_prev /\ position \notin OnSphereSet)
         => (rotation' = rotation /\ position_prev' = position_prev)
      /\ (last'.h = "tick" /\ deferred /= <<>> /\ position /= position_prev
            /\ position \in OnSphereSet /\ position_prev \in OnSphereSet)
         => /\ position_prev = deferred[1]
            /\ rotation' = FAdd(rotation, FSub(Lon[position], Lon[deferred[1]]))
    ]_vars
C2_Witness ==
  /\ last.h = "tick"
  /\ deferred /= <<>>
  /\ position /= position_prev
  /\ position \notin OnSphereSet
  /\ position_prev \in InsideSet
  /\ pressed

(* C3: a tick with current /= previous and both inside the closed unit     *)
(* disc adds longitude(current) - longitude(previous) to rotation, sets    *)
(* previous to current and leaves current and dragging unchanged.          *)
C3_TickApplies ==
  [][ (last'.h = "tick" /\ position /= position_prev
         /\ position \in OnSphereSet /\ position_prev \in OnSphereSet)
      => /\ rotation' = FAdd(rotation, FSub(Lon[position], Lon[position_prev]))
         /\ position_prev' = position
         /\ position' = position
         /\ pressed' = pressed
    ]_vars
C3_Witness ==
  /\ last.h = "tick"
  /\ position = position_prev
  /\ position \in InsideSet
  /\ ~rotation.nan
  /\ rotation.deg = rot_at_press.deg + 30
  /\ rot_at_press.deg /= 0

(* C4: rotation changes only in a tick that also sets previous := current; *)
(* a tick changes previous only when it applies the longitude delta; move  *)
(* and release change neither; press is the only other writer of previous  *)
(* and does not change rotation.                                           *)
C4_Lockstep ==
  [][ /\ (rotation' /= rotation) => (last'.h = "tick" /\ position_prev' = position)
      /\ (last'.h = "tick" /\ position_prev' /= position_prev)
         => /\ position_prev' = position
            /\ rotation' = FAdd(rotation, FSub(Lon[position], Lon[position_prev]))
      /\ (last'.h \in {"mousemove", "mouseup"}) => UNCHANGED <<position_prev, rotation>>
      /\ (last'.h /= "tick" /\ position_prev' /= position_prev)
         => (last'.h = "mousedown" /\ last'.button = 0 /\ rotation' = rotation)
    ]_vars
C4_Witness ==
  /\ last.h = "tick"
  /\ position_prev = position
  /\ position_prev /= drag_start
  /\ ~rotation.nan
  /\ rotation /= rot_at_press

(* C5: when the exact pole is current or previous in a tick, the longitude *)
(* delta is treated as zero: the tick leaves rotation at its value.        *)
C5_PoleDeltaZero ==
  [][ (last'.h = "tick" /\ (position \in PoleSet \/ position_prev \in PoleSet))
      => rotation' = rotation ]_vars

(* C6: a press with button 0 sets dragging and sets current and previous   *)
(* to the event position, rotation unchanged; a press with another button  *)
(* changes none of the four.                                               *)
C6_PressEffect ==
  [][ (last'.h = "mousedown")
      => IF last'.button = 0
           THEN /\ pressed' = TRUE
                /\ position' = last'.pos
                /\ position_prev' = last'.pos
                /\ rotation' = rotation
           ELSE UNCHANGED <<pressed, position, position_prev, rotation>>
    ]_vars
C6_Witness ==
  /\ last.h = "mousedown"
  /\ last.button = 0
  /\ pressed
  /\ position = last.pos
  /\ position_prev = last.pos
  /\ rotation /= F(0)

(* C7: a move while dragging sets current to the event position and        *)
(* changes nothing else; a move while not dragging changes nothing.        *)
C7_MoveEffect ==
  [][ (last'.h = "mousemove")
      => /\ position' = (IF pressed THEN last'.pos ELSE position)
         /\ UNCHANGED <<pressed, position_prev, rotation>>
    ]_vars
C7_Witness ==
  /\ last.h = "mousemove"
  /\ pressed
  /\ position = last.pos
  /\ position /= position_prev

(* C8: dragging implies a primary press has occurred with no release       *)
(* since; a release sets current to the event position if dragging, then   *)
(* leaves dragging false, previous and rotation unchanged.                 *)
C8_DraggingBracket ==
  /\ [](pressed => press_open)
  /\ [][ (last'.h = "mouseup")
         => /\ position' = (IF pressed THEN last'.pos ELSE position)
            /\ pressed' = FALSE
            /\ UNCHANGED <<position_prev, rotation>>
       ]_vars
C8_Witness ==
  /\ last.h = "mouseup"
  /\ ~pressed
  /\ position = last.pos
  /\ position /= position_prev

(* C9: within one drag started at a position A strictly inside the disc,   *)
(* the net rotation change equals longitude(previous) - longitude(A) after *)
(* any number of ticks: pressing at A, moving to B, ticking, moving to C   *)
(* and ticking gives the same rotation as pressing at A, moving to C and   *)
(* ticking once.                                                           *)
C9_TelescopingExact ==
  (drag_start \in InsideSet /\ ~rotation.nan)
  => rotation = FAdd(rot_at_press, FSub(Lon[position_prev], Lon[drag_start]))

(* C9 as amended: the same, within floating-point tolerance.  With A the   *)
(* start of the drag (strictly inside the disc) and the rotation a number, *)
(* the whole degrees of rotation equal those of rot_at_press +             *)
(* longitude(previous) - longitude(A); the rest differs from that unrounded*)
(* sum by the rounding error of the additions made: a primary press makes  *)
(* the difference zero, each tick changes it by at most half a unit in the *)
(* last place of the delta plus half a unit in the last place of the new   *)
(* rotation, and no other event changes it.                                *)
C9_Error(rot, rap, pp, ds) == rot.eps - (rap.eps + Lon[pp].eps - Lon[ds].eps)
C9_InDrag(rot, ds) == ds \in InsideSet /\ ~rot.nan
C9_RoundingError == C9_Error(rotation, rot_at_press, position_prev, drag_start)
C9_TelescopingWithinTolerance ==
  /\ [](C9_InDrag(rotation, drag_start) =>
          rotation.deg = rot_at_press.deg + Lon[position_prev].deg - Lon[drag_start].deg)
  /\ [][ (C9_InDrag(rotation', drag_start') /\ last'.h = "mousedown" /\ last'.button = 0)
         => C9_Error(rotation', rot_at_press', position_prev', drag_start') = 0 ]_vars
  /\ [][ (/\ C9_InDrag(rotation, drag_start)
          /\ C9_InDrag(rotation', drag_start')
          /\ ~(last'.h = "mousedown" /\ last'.button = 0))
         => 2 * Abs(C9_Error(rotation', rot_at_press', position_prev', drag_start')
                      - C9_RoundingError)
              <= (IF last'.h = "tick"
                    THEN Spacing(rotation'.deg - rotation.deg) + Spacing(rotation'.deg)
                    ELSE 0) ]_vars
C9_Witness ==
  /\ last.h = "tick"
  /\ drag_start \in InsideSet
  /\ ~rotation.nan
  /\ position = position_prev
  /\ position_prev /= drag_start
  /\ rot_at_press.deg /= 0
  /\ C9_RoundingError /= 0

(* C10: while current = previous, a tick, and any pointer event at that    *)
(* same position, leaves rotation and previous unchanged and current equal *)
(* to previous: press at P, move to P, release, with ticks anywhere in     *)
(* between, gives zero net rotation change.                                *)
C10_SamePositionNoChange ==
  [][ (position = position_prev /\ (last'.h = "tick" \/ last'.pos = position))
      => /\ rotation' = rotation
         /\ position_prev' = position_prev
         /\ position' = position_prev'
    ]_vars
C10_Witness ==
  /\ last.h = "tick"
  /\ ~pressed
  /\ position \in OnSphereSet
  /\ position = position_prev
  /\ position = drag_start
  /\ rotation = rot_at_press

(* C11: the animation loop sustains itself: every run of the frame         *)
(* closure, whichever path it takes, leaves exactly one frame request      *)
(* outstanding, and the closure runs again and again for ever.             *)
C11_LoopSelfPerpetuating ==
  /\ [](raf = 1)
  /\ []<>(last.h = "tick")
C11_Witness ==
  /\ last.h = "tick"
  /\ raf = 1
  /\ draws = 1
  /\ pressed
  /\ position = position_prev
  /\ position /= drag_start

Segments ==
  UNION { {<<i, j>> : j \in 1..(Len(COASTLINE_POINTS[i]) - 1)} :
          i \in 1..Len(COASTLINE_POINTS) }
NearLimb(point, rot) ==
  \/ Abs(point[2]) = 90
  \/ FAdd(F(point[1]), rot).deg % 180 = 90
HalfTurn(rot) == FAdd(rot, F(180))

(* C13: a segment is stroked back-facing iff the projected x of either end *)
(* point is negative, and a segment front-facing at rotation R is          *)
(* back-facing at R + 180, provided no end point has x = 0.                *)
C13_HalfTurnExact ==
  ~drawn.nan =>
    \E now \in {draw(drawn)}, turned \in {draw(HalfTurn(drawn))} :
    \A ij \in Segments :
      LET s == now[ij[1]][ij[2]]
          t == turned[ij[1]][ij[2]]
      IN  /\ (s.style = "COAST_BACK")
                <=> (Negative(Project(s.from, drawn)) \/ Negative(Project(s.to, drawn)))
          /\ (/\ s.style = "COAST_FRONT"
              /\ Project(s.from, drawn).sgn /= 0
              /\ Project(s.to, drawn).sgn /= 0)
             => t.style = "COAST_BACK"

(* C13 as amended: the same, provided no end point has x within rounding   *)
(* of 0 (x ~ 0: the point is at a pole or on the limb at R).               *)
C13_HalfTurnAwayFromLimb ==
  ~drawn.nan =>
    \E now \in {draw(drawn)}, turned \in {draw(HalfTurn(drawn))} :
    \A ij \in Segments :
      LET s == now[ij[1]][ij[2]]
          t == turned[ij[1]][ij[2]]
      IN  /\ (s.style = "COAST_BACK")
                <=> (Negative(Project(s.from, drawn)) \/ Negative(Project(s.to, drawn)))
          /\ (/\ s.style = "COAST_FRONT"
              /\ ~NearLimb(s.from, drawn)
              /\ ~NearLimb(s.to, drawn))
             => t.style = "COAST_BACK"
C13_Witness ==
  /\ last.h = "tick"
  /\ draws = 1
  /\ ~drawn.nan
  /\ drawn.deg = 30
  /\ draw(drawn)[1][1].from = <<0, 0>>
  /\ draw(drawn)[1][1].style = "COAST_FRONT"
  /\ draw(HalfTurn(drawn))[1][1].style = "COAST_BACK"
  /\ draw(drawn)[3][1].style = "COAST_BACK"

(* C14: canvas_to_unit_coords is the algebraic inverse of the transform    *)
(* set on the canvas (scale by half the smaller canvas dimension, flip the *)
(* vertical, translate to the centre): in exact arithmetic the transform   *)
(* takes the unit coordinates of every pixel back to the pixel; the canvas *)
(* centre maps to (0, 0) and the top row to v = +1.                        *)
C14_EveryPixel ==
  \A px \in 0..CANVAS_WIDTH, py \in 0..CANVAS_HEIGHT :
    LET uv == canvas_to_unit_coords(px, py)
    IN  /\ context_transform(uv[1], uv[2]) = <<px, py>>
        /\ (py = 0) => (uv[2] = Half)
        /\ (px = CANVAS_WIDTH \div 2 /\ py = CANVAS_HEIGHT \div 2) => (uv = <<0, 0>>)
C14_InverseOfTransform ==
  /\ C14_EveryPixel
  /\ \A p \in {position, position_prev} :
       LET uv == canvas_to_unit_coords(p.x, p.y)
       IN  context_transform(uv[1], uv[2]) = <<p.x, p.y>>
C14_Witness ==
  /\ last.h = "tick"
  /\ position = Position(400, 0)
  /\ position_prev = position
  /\ canvas_to_unit_coords(position.x, position.y) = <<0, Half>>
  /\ context_transform(0, Half) = <<position.x, position.y>>

(* What a finished run of the build script read and wrote.                 *)
Supported(shape) == shape.kind \in {"Polyline", "Polygon"}
Unsupported(shape) == shape.kind \notin {"Polyline", "Polygon", "ReadError"}
Written(text) == {i \in 1..Len(data_rs) : data_rs[i].text = text}

(* C15: a shape that is neither a polyline nor a polygon is fatal to the   *)
(* build: write_data stops there and returns an error, so a run that       *)
(* returns success has met no such shape.                                  *)
C15_UnsupportedShapeFatal ==
  (build = "Ok") => \A i \in 1..Len(shapefile) : Supported(shapefile[i])

(* C15 as amended: for such a shape write_data writes the text             *)
(* !!!ERROR(<shape>)!!! into the generated file in the place of a polyline *)
(* and goes on with the remaining items; it returns an error only when     *)
(* reading an item or writing the file fails.  So when no item is a read   *)
(* error and the quota of the file is not used up, the run returns         *)
(* success, the file holds one marker for each such shape, one opened and  *)
(* closed polyline for each polyline and polygon, and ends with the        *)
(* closing line of the table.                                              *)
C15_UnsupportedShapeMarked ==
  (/\ build /= "none"
   /\ \A i \in 1..Len(shapefile) : shapefile[i].kind /= "ReadError"
   /\ Len(data_rs) < quota)
  => /\ build = "Ok"
     /\ Cardinality(Written("!!!ERROR(Point)!!!"))
          = Cardinality({i \in 1..Len(shapefile) : Unsupported(shapefile[i])})
     /\ Cardinality(Written("&["))
          = Cardinality({i \in 1..Len(shapefile) : Supported(shapefile[i])})
     /\ Cardinality(Written("],")) = Cardinality(Written("&["))
     /\ data_rs[Len(data_rs)].text = "];"
C15_Witness ==
  /\ build = "Ok"
  /\ Len(shapefile) = 3
  /\ Unsupported(shapefile[1])
  /\ shapefile[2].kind = "Polyline"
  /\ Unsupported(shapefile[3])
  /\ data_rs[3] = Marker(shapefile[1])
  /\ data_rs[4].text = "&["
  /\ data_rs[Len(data_rs) - 1] = Marker(shapefile[3])

(* C16: the frame closure does not look at pressed: when a move or release *)
(* has left current at a position on the sphere and the drag has ended     *)
(* before a frame ran, the next frame still adds longitude(current) -      *)
(* longitude(previous) to rotation and sets previous := current; from then *)
(* on current = previous and frames without new events change nothing.     *)
C16_TickNotGated ==
  [][ /\ (/\ last'.h = "tick"
          /\ ~pressed
          /\ position /= position_prev
          /\ position \in OnSphereSet)
         => /\ rotation' = FAdd(rotation, FSub(Lon[position], Lon[position_prev]))
            /\ position_prev' = position
            /\ position' = position_prev'
      /\ (last'.h = "tick" /\ position = position_prev)
         => UNCHANGED <<pressed, position, position_prev, rotation>>
    ]_vars

(* C16 as amended: the same, when previous is on the sphere as well; with  *)
(* previous off the sphere the frame changes nothing.                      *)
C16_TickNotGatedOnSphere ==
  [][ /\ (/\ last'.h = "tick"
          /\ ~pressed
          /\ position /= position_prev
          /\ position \in OnSphereSet)
         => IF position_prev \in OnSphereSet
              THEN /\ rotation' = FAdd(rotation, FSub(Lon[position], Lon[position_prev]))
                   /\ position_prev' = position
                   /\ position' = position_prev'
                   /\ pressed' = FALSE
              ELSE UNCHANGED <<pressed, position, position_prev, rotation>>
      /\ (last'.h = "tick" /\ position = position_prev)
         => UNCHANGED <<pressed, position, position_prev, rotation>>
    ]_vars
C16_Witness ==
  /\ last.h = "tick"
  /\ ~pressed
  /\ draws = 1
  /\ position = position_prev
  /\ position /= drag_start
  /\ drag_start \in OnSphereSet
  /\ rotation.deg /= rot_at_press.deg

(* C17: a primary press at a position outside the unit disc leaves         *)
(* previous outside the disc, and from then until the next primary press   *)
(* no frame changes rotation or previous, whatever positions on the sphere *)
(* the moves and the release deliver.                                      *)
C17_OffDiscPressFreezes ==
  /\ [][ (last'.h = "mousedown" /\ last'.button = 0 /\ last'.pos \notin OnSphereSet)
         => (position_prev' = last'.pos /\ drag_start' = last'.pos) ]_vars
  /\ [][ (last'.h = "tick" /\ drag_start \notin OnSphereSet)
         => UNCHANGED <<rotation, position_prev>> ]_vars
  /\ []((drag_start \notin OnSphereSet)
          => (position_prev = drag_start /\ rotation = rot_at_press))
C17_Witness ==
  /\ last.h = "tick"
  /\ drag_start \notin OnSphereSet
  /\ rot_at_press /= F(0)
  /\ position_prev = drag_start
  /\ position \in InsideSet
  /\ ~pressed
  /\ rotation = rot_at_press

(* C18: the picture never lags the state: in every state the rotation last *)
(* passed to draw is the current rotation; the rotation changes only in a  *)
(* frame, and that frame draws with the new value.                         *)
C18_PictureCurrent ==
  /\ [](drawn = rotation)
  /\ [][ (rotation' /= rotation)
         => (last'.h = "tick" /\ draws' = 1 /\ drawn' = rotation') ]_vars
C18_Witness ==
  /\ last.h = "tick"
  /\ draws = 1
  /\ pressed
  /\ ~rotation.nan
  /\ rotation.deg = rot_at_press.deg + 60
  /\ drawn = rotation

(* C19: the mouseup listener does not look at the button: a release of any *)
(* button ends the drag, so after a primary press and the release of       *)
(* another button the moves that follow are ignored.                       *)
C19_ReleaseAnyButton ==
  [][ /\ (last'.h = "mouseup") => (pressed' = FALSE)
      /\ (last.h = "mouseup" /\ last.button /= 0 /\ last'.h = "mousemove")
         => UNCHANGED <<pressed, position, position_prev, rotation>>
      /\ (last'.h = "mousemove" /\ ~press_open)
         => UNCHANGED <<pressed, position, position_prev, rotation>>
    ]_vars
C19_Witness ==
  /\ last.h = "mouseup"
  /\ last.button /= 0
  /\ ~pressed
  /\ position = last.pos
  /\ position /= position_prev
  /\ position_prev = drag_start

(* C20: a primary press that arrives while a movement is still waiting for *)
(* the frame (current /= previous) overwrites current and previous with    *)
(* its position and leaves rotation alone; the frame that follows adds     *)
(* nothing, so the waiting longitude difference is dropped.                *)
C20_PressDiscardsPending ==
  [][ /\ (last'.h = "mousedown" /\ last'.button = 0 /\ position /= position_prev)
         => /\ last'.pending
            /\ position' = last'.pos
            /\ position_prev' = last'.pos
            /\ rotation' = rotation
      /\ (last.h = "mousedown" /\ last.button = 0 /\ last.pending /\ last'.h = "tick")
         => UNCHANGED <<position, position_prev, rotation>>
    ]_vars
C20_Witness ==
  /\ last.h = "mousedown"
  /\ last.pending
  /\ pressed
  /\ position = last.pos
  /\ position_prev = last.pos
  /\ position \in InsideSet
  /\ rotation = rot_at_press
  /\ rotation /= F(0)

====
